---- MODULE Spec2Model ----
(***************************************************************************)
(* A model of nyancat's frame-streaming engine: the Telnet negotiation     *)
(* parser (telnet.rs, parse_telnet_commands), the viewport computation     *)
(* (RenderSize::new), and the per-connection animation loops of the        *)
(* telnet, websocket and terminal transports.                              *)
(*                                                                         *)
(* Buffer indices are 0-based as in the source; Byte(d, k) is data[k].     *)
(***************************************************************************)
EXTENDS Integers, Sequences, FiniteSets, TLC

VARIABLES
    data,   \* parse_telnet_commands: the slice &buf[..n] being parsed
    ps,     \* parse_telnet_commands: locals i, *width, *height and the return
    vin,    \* RenderSize::new: the frame size, its arguments and the build
    vp,     \* RenderSize::new: the RenderSize returned
    transport,      \* the mode main dispatches to: "telnet", "ws", "terminal"
    args,           \* cli.rs Args: no_clear, no_counter, frames
    overflow_checks,\* whether the build panics on integer overflow
    peer,           \* the client's end of the connection
    inbox,          \* what the client has sent and the server has not read
    frame_idx,      \* the session's frame_idx (telnet.rs:60, http.rs:179,
                    \* standalone.rs:42)
    render_size,    \* the RenderSize of the session's latest tick
    frame_data,     \* the frame_data of the session's latest tick
    emitted,        \* the indices of the frames emitted so far, in order
    tn_pc,          \* handle_telnet_client: where the task stands
    client_width,   \* handle_telnet_client: client_width
    client_height,  \* handle_telnet_client: client_height
    reported,       \* the window size of the first NAWS the server has read
    send_task,      \* handle_socket: where send_task stands
    recv_task,      \* handle_socket: where recv_task stands
    handler,        \* handle_socket: at its select!, or returned
    channel,        \* handle_socket: the messages in the mpsc channel
    tx_pending,     \* process_message: the message tx_from_ws.send waits with
    ws_size,        \* send_task: width and height of the Ok message
    ws_sent,        \* the messages the server has sent, as serialized
    n_msgs,         \* how many messages the client has sent
    sa_pc,          \* run_standalone: where it stands
    event_loop,     \* run_standalone: the key listener task
    key,            \* the key event the terminal holds for the listener
    raw_mode,       \* the terminal is in raw mode
    cursor_hidden,  \* the terminal's cursor is hidden
    term_size       \* the terminal's columns and rows

parseVars == <<data, ps>>
viewVars == <<vin, vp>>
envVars == <<transport, args, overflow_checks>>
loopVars == <<frame_idx, render_size, frame_data, emitted>>
tnVars == <<tn_pc, client_width, client_height, reported>>
wsVars == <<send_task, recv_task, handler, channel, tx_pending, ws_size,
            ws_sent, n_msgs>>
saVars == <<sa_pc, event_loop, key, raw_mode, cursor_hidden, term_size>>
sessionVars == <<envVars, peer, inbox, loopVars, tnVars, wsVars, saVars>>
vars == <<parseVars, viewVars, sessionVars>>

\* a variable of a component that is not running
Idle == [idle |-> TRUE]

\* no telnet session runs
TelnetIdle ==
    /\ tn_pc = Idle /\ client_width = Idle /\ client_height = Idle
    /\ reported = Idle

\* no websocket session runs
WsIdle ==
    /\ send_task = Idle /\ recv_task = Idle /\ handler = Idle
    /\ channel = Idle /\ tx_pending = Idle
    /\ ws_size = Idle /\ ws_sent = Idle /\ n_msgs = Idle

\* no terminal session runs
SaIdle ==
    /\ sa_pc = Idle /\ event_loop = Idle /\ key = Idle
    /\ raw_mode = Idle /\ cursor_hidden = Idle /\ term_size = Idle

\* no session runs
SessionIdle ==
    /\ transport = Idle /\ args = Idle /\ overflow_checks = Idle
    /\ peer = Idle /\ inbox = Idle
    /\ frame_idx = Idle /\ render_size = Idle
    /\ frame_data = Idle /\ emitted = Idle
    /\ TelnetIdle /\ WsIdle /\ SaIdle

(***************************************************************************)
(* Telnet protocol constants (telnet.rs:15-22)                             *)
(***************************************************************************)
IAC == 255
DO == 253
WILL == 251
SGA == 3
TTYPE == 24
NAWS == 31
SB == 250
SE == 240

\* handle_telnet_client's initial client_width / client_height (telnet.rs:39-40)
DefaultWidth == 80
DefaultHeight == 24

(***************************************************************************)
(* Bounds of the parser's inputs                                           *)
(***************************************************************************)
\* every buffer over Alphabet of at most MaxLen bytes is parsed
MaxLen == 5
\* a structured buffer starts with at most MaxItems well-formed Telnet items
MaxItems == 2

\* The byte values the parser tells apart, and one plain data byte.
Alphabet == {0, TTYPE, NAWS, SE, SB, IAC}

SeqsUpTo(S, n) == UNION {[1..m -> S] : m \in 0..n}

\* data[k]; an index past the end of the slice panics in Rust, which the
\* caller of Byte records through the set of indices it reads.
Byte(d, k) == IF k < Len(d) THEN d[k + 1] ELSE -1

(***************************************************************************)
(* parse_telnet_commands (telnet.rs:106-180)                               *)
(***************************************************************************)
\* telnet.rs:112  `i + 1 < data_len`
HasNext(i, len) == i + 1 < len

\* telnet.rs:117  `i + 2 >= data_len`
NoOptionMut(i, len) == i + 2 > len
NoOption(i, len) == i + 2 >= len

\* telnet.rs:127  `i + 4 <= data_len`
HasPayloadMut(i, len) == i + 3 <= len
HasPayload(i, len) == i + 4 <= len

\* telnet.rs:128  ((data[i] as u16) << 8) | data[i + 1] as u16
NawsWidthMut(d, i) == (Byte(d, i + 1) * 256 + Byte(d, i)) % 65536
NawsWidth(d, i) == (Byte(d, i) * 256 + Byte(d, i + 1)) % 65536

\* telnet.rs:129  ((data[i + 2] as u16) << 8) | data[i + 3] as u16
NawsHeight(d, i) == (Byte(d, i + 2) * 256 + Byte(d, i + 3)) % 65536

\* telnet.rs:133/148/158  the condition of the skip loops
SkipMore(d, i) ==
    /\ i + 1 < Len(d)
    /\ ~(Byte(d, i) = IAC /\ Byte(d, i + 1) = SE)

\* telnet.rs:133-135/148-150/158-160  `while ... { i += 1; }`, the final i
RECURSIVE SkipToSE(_, _)
SkipToSE(d, i) == IF SkipMore(d, i) THEN SkipToSE(d, i + 1) ELSE i

\* the indices the skip loop started at i and stopped at f has read
SkipReads(d, i, f) ==
    UNION {IF k + 1 < Len(d)
             THEN (IF Byte(d, k) = IAC THEN {k, k + 1} ELSE {k})
             ELSE {} : k \in i..f}

\* telnet.rs:152-154/161-163  `if i + 1 < data_len { i += 2; }`
SkipSEMut(d, f) == f
SkipSE(d, f) == IF f + 1 < Len(d) THEN f + 2 ELSE f

\* The state parse_telnet_commands starts in (telnet.rs:106-108): i = 0 and
\* the caller's width and height.  prev is the index at which the latest loop
\* iteration began and reads the set of indices of data read so far.
ParseStart(w, h) ==
    [i |-> 0, width |-> w, height |-> h, pc |-> "scan", ret |-> FALSE,
     prev |-> -1, reads |-> {}]

\* A step that read the indices rd: a read past the end of the slice panics.
AfterReads(d, s, t, rd) ==
    IF \E k \in rd : k >= Len(d)
      THEN [s EXCEPT !.pc = "panic", !.reads = @ \cup rd]
      ELSE [t EXCEPT !.reads = @ \cup rd]

\* telnet.rs:125-144 when fewer than 4 payload bytes are left: nothing is
\* written and the outer loop goes on at the payload
NawsIncompleteMut(d, s, j) ==
    IF j + 2 <= Len(d)
      THEN [s EXCEPT !.i = j, !.width = NawsWidth(d, j)]
      ELSE [s EXCEPT !.i = j]
NawsIncomplete(d, s, j) == [s EXCEPT !.i = j]

\* telnet.rs:125-143 with the 4 payload bytes present: width, then height,
\* then the skip loop, then `return true`
NawsComplete(d, s, j, rd) ==
    LET w == [s EXCEPT !.width = NawsWidth(d, j)]
        f == SkipToSE(d, j + 4)
    IN  IF j + 1 >= Len(d)
          THEN AfterReads(d, s, s, rd \cup {j, j + 1})
          ELSE AfterReads(d, w,
                 [w EXCEPT !.height = NawsHeight(d, j), !.i = f,
                           !.pc = "done", !.ret = TRUE],
                 rd \cup {j, j + 1, j + 2, j + 3} \cup SkipReads(d, j + 4, f))

\* telnet.rs:121-164  the sub-negotiation of `option`, its payload at j
SubNegotiation(d, s, option, j, rd) ==
    IF option = NAWS
      THEN IF HasPayload(j, Len(d))
             THEN NawsComplete(d, s, j, rd)
             ELSE AfterReads(d, s, NawsIncomplete(d, s, j), rd)
      ELSE LET f == SkipToSE(d, j)
           IN  AfterReads(d, s, [s EXCEPT !.i = SkipSE(d, f)],
                          rd \cup SkipReads(d, j, f))

\* telnet.rs:110-179  one iteration of `while i < data_len`, or the
\* `false` returned when the loop ends
Step(d, s) ==
    LET len == Len(d)
        i == s.i
        s0 == [s EXCEPT !.prev = i]
    IN  IF ~(i < len)
          THEN [s EXCEPT !.pc = "done", !.ret = FALSE]
          ELSE IF Byte(d, i) = IAC /\ HasNext(i, len)
            THEN IF Byte(d, i + 1) = SB
                   THEN IF NoOption(i, len)
                          THEN AfterReads(d, s0,
                                 [s0 EXCEPT !.pc = "done", !.ret = FALSE],
                                 {i, i + 1})
                          ELSE SubNegotiation(d, s0, Byte(d, i + 2), i + 3,
                                              {i, i + 1, i + 2})
                   ELSE AfterReads(d, s0, [s0 EXCEPT !.i = i + 3], {i, i + 1})
            ELSE AfterReads(d, s0, [s0 EXCEPT !.i = i + 1], {i})

\* parse_telnet_commands run to its return (or panic)
RECURSIVE RunParse(_, _)
RunParse(d, s) == IF s.pc = "scan" THEN RunParse(d, Step(d, s)) ELSE s

\* parse_telnet_commands(data, &mut width, &mut height)
ParseTelnetCommands(d, w, h) == RunParse(d, ParseStart(w, h))

(***************************************************************************)
(* The buffers the parser is run on                                        *)
(***************************************************************************)
\* IAC SB NAWS and a payload
NawsHead == <<IAC, SB, NAWS>>
Naws(b0, b1, b2, b3) == NawsHead \o <<b0, b1, b2, b3>>
Terminator == <<IAC, SE>>

\* a command of two bytes, without an option byte: IAC NOP
TwoByteCommand == <<IAC, 241>>

\* well-formed Telnet items: a data byte, IAC NOP, IAC WILL NAWS,
\* IAC DO TTYPE, a terminated TTYPE sub-negotiation, a terminated unknown
\* sub-negotiation
Items ==
    { <<0>>, TwoByteCommand, <<IAC, WILL, NAWS>>, <<IAC, DO, TTYPE>>,
      <<IAC, SB, TTYPE, 0, 65, IAC, SE>>, <<IAC, SB, 1, 0, IAC, SE>> }

RECURSIVE ItemSeqs(_)
ItemSeqs(n) ==
    IF n = 0 THEN {<<>>}
    ELSE LET r == ItemSeqs(n - 1)
         IN  r \cup {p \o it : p \in r, it \in Items}

\* payloads of window sizes a client may report
WidthHi == {0, 1}
WidthLo == {0, 80, 120}
HeightHi == {0, 1}
HeightLo == {0, 24, 40}
Suffixes == {<<>>, Terminator, <<0>>}

\* sub-negotiations of TTYPE and of an unknown option whose payload holds
\* the bytes of a NAWS sub-negotiation, terminated or not, and what follows
Embedded ==
    {<<IAC, SB, o>> \o p \o e \o x \o t :
        o \in {TTYPE, 1}, p \in {<<>>, <<0>>},
        e \in {Naws(0, 120, 0, 40), NawsHead \o <<0, 120>>, <<IAC>>},
        x \in {<<>>, Terminator},
        t \in {<<>>, <<0>>, <<IAC>>, Naws(0, 80, 0, 24)}}

Buffers ==
    \* every short buffer
    SeqsUpTo(Alphabet, MaxLen)
    \* other sub-negotiations with a NAWS in their payload
    \cup Embedded
    \* a NAWS sub-negotiation cut after 0..3 payload bytes of any value
    \cup {NawsHead \o t : t \in SeqsUpTo(Alphabet, 3)}
    \* a NAWS sub-negotiation with any payload, terminated or not
    \cup {NawsHead \o t \o x : t \in [1..4 -> Alphabet], x \in {<<>>, Terminator}}
    \* well-formed items, then a NAWS of a window size, whole or cut short
    \cup {p \o SubSeq(Naws(a, b, c, e), 1, n) \o x :
            p \in ItemSeqs(MaxItems), a \in WidthHi, b \in WidthLo,
            c \in HeightHi, e \in HeightLo, n \in 3..7, x \in Suffixes}

(***************************************************************************)
(* SpecParse: parse_telnet_commands on every buffer of Buffers, called     *)
(* as handle_telnet_client calls it (telnet.rs:47)                         *)
(***************************************************************************)
ParseInit ==
    /\ data \in Buffers
    /\ ps = ParseStart(DefaultWidth, DefaultHeight)
    /\ vin = Idle /\ vp = Idle
    /\ SessionIdle

ParseStep ==
    /\ ps.pc = "scan"
    /\ ps' = Step(data, ps)
    /\ UNCHANGED <<data, viewVars, sessionVars>>

ParseNext == ParseStep

SpecParse == ParseInit /\ [][ParseNext]_vars

(***************************************************************************)
(* Properties of parse_telnet_commands                                     *)
(***************************************************************************)
\* IAC SB NAWS stands at index p of d with at least 4 further bytes
CompleteNawsAt(d, p) ==
    /\ p >= 0
    /\ p + 7 <= Len(d)
    /\ d[p + 1] = IAC /\ d[p + 2] = SB /\ d[p + 3] = NAWS

\* the indices at which the bytes IAC SB NAWS occur in d
NawsOccurrences(d) ==
    {p \in 0..(Len(d) - 3) : d[p + 1] = IAC /\ d[p + 2] = SB /\ d[p + 3] = NAWS}

\* d holds a NAWS sub-negotiation and every one it holds is cut short by the
\* end of the buffer
OnlyTruncatedNaws(d) ==
    /\ NawsOccurrences(d) # {}
    /\ \A p \in NawsOccurrences(d) : p + 7 > Len(d)

\* C1: once the scan has reached IAC SB NAWS with at least 4 further bytes
\* b0..b3 in the buffer, the parser has returned true with
\* width = 256*b0 + b1 and height = 256*b2 + b3, with or without IAC SE
\* behind the payload.
C1_CompleteNawsReported ==
    CompleteNawsAt(data, ps.prev) =>
        /\ ps.pc = "done" /\ ps.ret = TRUE
        /\ ps.width = 256 * data[ps.prev + 4] + data[ps.prev + 5]
        /\ ps.height = 256 * data[ps.prev + 6] + data[ps.prev + 7]

\* the correctly framed NAWS of 120 x 40 has been parsed as (120, 40)
C1_Witness ==
    /\ data = Naws(0, 120, 0, 40) \o Terminator
    /\ ps.pc = "done" /\ ps.ret = TRUE
    /\ ps.width = 120 /\ ps.height = 40

\* C2: for a buffer whose NAWS sub-negotiation is cut short (IAC SB NAWS and
\* 0..3 further bytes of any value, then the end of the buffer), the parser
\* ends by returning false.
C2_TruncatedNawsIncomplete ==
    (ps.pc # "scan" /\ OnlyTruncatedNaws(data)) =>
        (ps.pc = "done" /\ ps.ret = FALSE)

\* a NAWS cut after 3 payload bytes, behind a data byte, was parsed to false
C2_Witness ==
    /\ data = <<0>> \o NawsHead \o <<0, 120, 0>>
    /\ ps.pc = "done" /\ ps.ret = FALSE

\* C3: every index of the buffer that the parser reads is below the buffer's
\* length, and the parser never panics.
C3_ReadsInBounds ==
    /\ \A k \in ps.reads : 0 <= k /\ k < Len(data)
    /\ ps.pc # "panic"

\* a buffer ending inside a NAWS payload was scanned to its end
C3_Witness ==
    /\ data = <<0>> \o NawsHead \o <<0, 0>>
    /\ ps.pc = "done"
    /\ ps.reads = 0..5

\* C4: unless the call has returned true, width and height are the values
\* the caller passed; a call that returned true wrote both, from the 4
\* payload bytes of the NAWS it stopped at.
C4_NoPartialWrite ==
    IF ps.pc = "done" /\ ps.ret = TRUE
      THEN /\ CompleteNawsAt(data, ps.prev)
           /\ ps.width = 256 * data[ps.prev + 4] + data[ps.prev + 5]
           /\ ps.height = 256 * data[ps.prev + 6] + data[ps.prev + 7]
      ELSE /\ ps.width = DefaultWidth
           /\ ps.height = DefaultHeight

\* a NAWS cut after its two width bytes was parsed to false, nothing written
C4_Witness ==
    /\ data = NawsHead \o <<1, 120>>
    /\ ps.pc = "done" /\ ps.ret = FALSE
    /\ ps.width = DefaultWidth /\ ps.height = DefaultHeight

(***************************************************************************)
(* RenderSize::new(width, height) (animation.rs, called at                 *)
(* telnet.rs:68-73 and standalone.rs:62-67).  Its body is the computation  *)
(* render_frame held before it was moved (standalone.rs:133-139):          *)
(*   term_half_width = (terminal_width / 2) as usize                       *)
(*   min_col = FRAME_WIDTH.saturating_sub(term_half_width) / 2             *)
(*   max_col = min_col + term_half_width                                   *)
(*   min_row = FRAME_HEIGHT.saturating_sub(terminal_height as usize) / 2   *)
(*   max_row = min_row + (terminal_height - 1) as usize                    *)
(***************************************************************************)
\* the largest u16
MaxU16 == 65535

\* usize::saturating_sub
SatSubMut(a, b) == a - b
SatSub(a, b) == IF a >= b THEN a - b ELSE 0

\* term_half_width: a cell is two columns wide
VisibleColsMut(w) == w
VisibleCols(w) == w \div 2

\* `terminal_height - 1` in u16: with height 0 the subtraction overflows,
\* which panics in a build with overflow checks and wraps to 65535 without
RowsShown(h, checked) ==
    IF h >= 1 THEN [panic |-> FALSE, rows |-> h - 1]
    ELSE IF checked THEN [panic |-> TRUE, rows |-> 0]
    ELSE [panic |-> FALSE, rows |-> MaxU16]

\* RenderSize::new for a frame of fw x fh cells
RenderSizeNew(fw, fh, w, h, checked) ==
    LET min_col == SatSub(fw, VisibleCols(w)) \div 2
        min_row == SatSub(fh, h) \div 2
        r == RowsShown(h, checked)
    IN  [min_col |-> min_col, max_col |-> min_col + VisibleCols(w),
         min_row |-> min_row, max_row |-> min_row + r.rows,
         panic |-> r.panic]

(***************************************************************************)
(* SpecView: RenderSize::new on frame sizes and client sizes               *)
(***************************************************************************)
\* frame sizes 0..MaxFrame and client sizes 0..MaxClientWidth x
\* 0..MaxClientHeight are computed, and the sizes below
MaxFrame == 5
MaxClientWidth == 12
MaxClientHeight == 7
\* a frame of 64 x 64 cells, the 80 x 24 terminal and the largest sizes
FrameSizes == 0..MaxFrame \cup {64}
ClientWidths == 0..MaxClientWidth \cup {DefaultWidth, MaxU16 - 1, MaxU16}
ClientHeights == 0..MaxClientHeight \cup {DefaultHeight, MaxU16}

ViewInit ==
    /\ vin \in [fw : FrameSizes, fh : FrameSizes, w : ClientWidths,
                h : ClientHeights, checked : BOOLEAN]
    /\ vp = Idle
    /\ data = Idle /\ ps = Idle
    /\ SessionIdle

Compute ==
    /\ vp = Idle
    /\ vp' = RenderSizeNew(vin.fw, vin.fh, vin.w, vin.h, vin.checked)
    /\ UNCHANGED <<vin, parseVars, sessionVars>>

ViewNext == Compute

SpecView == ViewInit /\ [][ViewNext]_vars

\* a RenderSize has been computed for a client height of at least 1
Computed == vp # Idle /\ vin.h >= 1

\* C7 as claimed: for every frame size and every client size with
\* clientHeight >= 1, 0 <= min_col <= max_col <= frameWidth and
\* 0 <= min_row <= max_row <= frameHeight.
C7_AsClaimed ==
    Computed =>
        /\ 0 <= vp.min_col /\ vp.min_col <= vp.max_col /\ vp.max_col <= vin.fw
        /\ 0 <= vp.min_row /\ vp.min_row <= vp.max_row /\ vp.max_row <= vin.fh

\* C7 (amended): for every frame size and every client size with
\* clientHeight >= 1, 0 <= min_col <= max_col, min_col <= frameWidth,
\* 0 <= min_row <= max_row and min_row <= frameHeight; max_col <= frameWidth
\* holds when floor(clientWidth/2) <= frameWidth and max_row <= frameHeight
\* when clientHeight - 1 <= frameHeight; a larger client gives
\* max_col = floor(clientWidth/2) > frameWidth, max_row = clientHeight - 1 >
\* frameHeight.
C7_ViewportBounds ==
    Computed =>
        /\ ~vp.panic
        /\ 0 <= vp.min_col /\ vp.min_col <= vp.max_col /\ vp.min_col <= vin.fw
        /\ 0 <= vp.min_row /\ vp.min_row <= vp.max_row /\ vp.min_row <= vin.fh
        /\ IF vin.w \div 2 <= vin.fw
             THEN vp.max_col <= vin.fw
             ELSE vp.max_col = vin.w \div 2
        /\ IF vin.h - 1 <= vin.fh
             THEN vp.max_row <= vin.fh
             ELSE vp.max_row = vin.h - 1

\* a client wider and taller than the frame: the bounds pass the frame's
C7_Witness ==
    /\ Computed
    /\ vin.fw = 64 /\ vin.fh = 64 /\ vin.w = MaxU16 /\ vin.h = MaxU16
    /\ vp.max_col = 32767 /\ vp.max_row = 65534

\* C8 as claimed: if floor(clientWidth/2) >= frameWidth then min_col = 0 and
\* max_col = frameWidth.
C8_AsClaimed ==
    (vp # Idle /\ vin.w \div 2 >= vin.fw) =>
        (vp.min_col = 0 /\ vp.max_col = vin.fw)

\* C8 (amended): if floor(clientWidth/2) >= frameWidth then min_col = 0 and
\* max_col = floor(clientWidth/2) >= frameWidth, so every column of the frame
\* lies in [min_col, max_col) and none is clipped.
C8_Centering ==
    (vp # Idle /\ vin.w \div 2 >= vin.fw) =>
        /\ vp.min_col = 0
        /\ vp.max_col = vin.w \div 2
        /\ \A x \in 0..(vin.fw - 1) : vp.min_col <= x /\ x < vp.max_col

\* the 80-column client on a frame of 5 columns
C8_Witness ==
    /\ vp # Idle
    /\ vin.fw = 5 /\ vin.w = DefaultWidth
    /\ vp.min_col = 0 /\ vp.max_col = 40

(***************************************************************************)
(* The animation (animation.rs): FRAMES, FRAME_WIDTH, FRAME_HEIGHT and     *)
(* render_color.  The frames here are small; their content stands for the  *)
(* art of the animation.                                                   *)
(***************************************************************************)
\* FRAMES.len()
NumFrames == 3
FRAME_WIDTH == 4
FRAME_HEIGHT == 3

\* the alphabet of the art
ArtChars == <<",", ".", "'", "@", "$", "-", ">", "&", "+", "#", "=", ";", "*", "%">>

\* frame f of fh rows of fw characters
MakeFrame(f, fw, fh) ==
    [y \in 1..fh |->
        [x \in 1..fw |-> ArtChars[((5 * f + 3 * y + x) % Len(ArtChars)) + 1]]]

FRAMES == [f \in 0..(NumFrames - 1) |-> MakeFrame(f, FRAME_WIDTH, FRAME_HEIGHT)]

\* render_color(c): the escape sequence of one cell, two columns wide
render_color(c) == "ESC[48;5;" \o c \o "m  ESC[0m"

(***************************************************************************)
(* handle_telnet_client: building frame_data (telnet.rs:63-89)             *)
(***************************************************************************)
\* telnet.rs:65  "\x1B[2J\x1B[1;1H"
ClearScreen == "ESC[2JESC[1;1H"
NewLine == "\n"

\* telnet.rs:77  `y < min_row || y >= max_row`
RowClippedMut(y, rs) == y < rs.min_row \/ y > rs.max_row
RowClipped(y, rs) == y < rs.min_row \/ y >= rs.max_row

\* telnet.rs:82  `x < min_col || x >= max_col`
ColClippedMut(x, rs) == x < rs.min_col \/ x > rs.max_col
ColClipped(x, rs) == x < rs.min_col \/ x >= rs.max_col

\* telnet.rs:81-88  one row: the cells that are not clipped, then '\n'
RowText(row, rs) ==
    LET xs == SelectSeq([k \in 1..Len(row) |-> k - 1],
                        LAMBDA x : ~ColClipped(x, rs))
    IN  [k \in 1..Len(xs) |-> render_color(row[xs[k] + 1])] \o <<NewLine>>

\* telnet.rs:76-89  the rows from y on
RECURSIVE RowsText(_, _, _)
RowsText(frame, rs, y) ==
    IF y >= Len(frame) THEN <<>>
    ELSE (IF RowClipped(y, rs) THEN <<>> ELSE RowText(frame[y + 1], rs))
         \o RowsText(frame, rs, y + 1)

\* telnet.rs:63-89  frame_data
FrameData(frame, rs, no_clear) ==
    (IF no_clear THEN <<>> ELSE <<ClearScreen>>) \o RowsText(frame, rs, 0)

(***************************************************************************)
(* The Telnet client: what it sends, and how its connection ends           *)
(***************************************************************************)
\* at most MaxTicks frames are written in a session
MaxTicks == 7
\* the frame limits --frames is given
MaxLimit == 4

\* the window sizes a client reports
NawsWidths == 0..(2 * FRAME_WIDTH + 2) \cup {300}
NawsHeights == 0..(FRAME_HEIGHT + 2) \cup {300}

\* the client's NAWS sub-negotiation of a window of w x h, without IAC SE
EncodeNaws(w, h) ==
    <<IAC, SB, NAWS, w \div 256, w % 256, h \div 256, h % 256>>

NoSize == <<>>
NoBytes == [bytes |-> <<>>, size |-> NoSize]

\* What a client sends in one segment, with the window size it reports:
\* replies to the handshake and data, which report none; a NAWS cut by the
\* segment's end; a NAWS alone, behind the replies, and without IAC SE.
ClientMsgs ==
    {[bytes |-> b, size |-> NoSize] :
        b \in { <<0>>, <<IAC, DO, SGA>>,
                <<IAC, WILL, TTYPE, IAC, WILL, NAWS>>,
                <<IAC, SB, TTYPE, 0, 65, IAC, SE>>,
                <<IAC, WILL, NAWS, IAC, SB, NAWS, 0, 80, 0>>,
                <<24, IAC, SE>> }}
    \cup {[bytes |-> p \o EncodeNaws(w, h) \o x, size |-> <<w, h>>] :
            w \in NawsWidths, h \in NawsHeights,
            p \in {<<>>, <<IAC, WILL, NAWS>>}, x \in {<<>>, Terminator}}

(***************************************************************************)
(* handle_telnet_client (telnet.rs:25-101)                                 *)
(***************************************************************************)
\* telnet.rs:30-34
Handshake == <<IAC, WILL, SGA, IAC, DO, TTYPE, IAC, DO, NAWS>>

\* Option::None, and Some(v)
None == <<>>
Some(v) == <<v>>

\* the Args a session of transport t depends on; telnet and websocket
\* sessions read no_clear only
ArgsOf(t) ==
    IF t = "terminal"
      THEN [no_clear : BOOLEAN, no_counter : BOOLEAN,
            frames : {None} \cup {Some(n) : n \in 0..MaxLimit}]
      ELSE [no_clear : BOOLEAN, no_counter : {FALSE}, frames : {None}]

\* the locals of an animation loop before its first tick
LoopInit ==
    /\ frame_idx = 0
    /\ render_size = Idle
    /\ frame_data = <<>>
    /\ emitted = <<>>

TelnetInit ==
    /\ transport = "telnet"
    /\ args \in ArgsOf("telnet")
    /\ overflow_checks \in BOOLEAN
    /\ peer = "open"
    /\ inbox = NoBytes
    /\ LoopInit
    /\ tn_pc = "handshake"
    /\ client_width = DefaultWidth
    /\ client_height = DefaultHeight
    /\ reported = NoSize
    /\ WsIdle /\ SaIdle

\* a step of the telnet session leaves the rest alone
TelnetOnly == UNCHANGED <<parseVars, viewVars, envVars, wsVars, saVars>>

\* the client sends a segment while the server negotiates
ClientSend ==
    /\ transport = "telnet" /\ peer = "open"
    /\ tn_pc \in {"handshake", "negotiate"}
    /\ inbox = NoBytes
    /\ \E m \in ClientMsgs : inbox' = m
    /\ UNCHANGED <<peer, tnVars, loopVars>>
    /\ TelnetOnly

\* the client closes the connection
ClientClose ==
    /\ transport = "telnet" /\ peer = "open"
    /\ peer' = "closed"
    /\ UNCHANGED <<inbox, tnVars, loopVars>>
    /\ TelnetOnly

\* the connection is reset; unread bytes are lost
ClientReset ==
    /\ transport = "telnet" /\ peer = "open"
    /\ peer' = "reset"
    /\ inbox' = NoBytes
    /\ UNCHANGED <<tnVars, loopVars>>
    /\ TelnetOnly

\* the window sizes a client changes to while the server streams
ResizedTo == {<<8, 4>>, <<2, 2>>}

\* the client changes its window while the server streams, and sends the
\* NAWS of the new size
ClientResize ==
    /\ transport = "telnet" /\ peer = "open"
    /\ tn_pc = "stream"
    /\ inbox = NoBytes
    /\ \E z \in ResizedTo :
          inbox' = [bytes |-> EncodeNaws(z[1], z[2]) \o Terminator, size |-> z]
    /\ UNCHANGED <<peer, tnVars, loopVars>>
    /\ TelnetOnly

\* telnet.rs:26-40  peer_addr, write_all(&handshake): `?` returns the error
TelnetHandshake ==
    /\ transport = "telnet" /\ tn_pc = "handshake"
    /\ \/ tn_pc' = "negotiate"
       \/ peer # "open" /\ tn_pc' = "closed"
    /\ UNCHANGED <<peer, inbox, client_width, client_height, reported, loopVars>>
    /\ TelnetOnly

\* telnet.rs:43-51  Ok(n): parse the bytes read; true ends the negotiation
TelnetReadData ==
    /\ transport = "telnet" /\ tn_pc = "negotiate"
    /\ inbox # NoBytes
    /\ LET r == ParseTelnetCommands(inbox.bytes, client_width, client_height)
       IN  /\ client_width' = r.width
           /\ client_height' = r.height
           /\ tn_pc' = IF r.pc = "panic" THEN "panicked"
                       ELSE IF r.ret THEN "stream" ELSE "negotiate"
    /\ reported' = IF reported = NoSize THEN inbox.size ELSE reported
    /\ inbox' = NoBytes
    /\ UNCHANGED <<peer, loopVars>>
    /\ TelnetOnly

\* telnet.rs:44  Ok(0) => break
TelnetReadEofMut ==
    /\ transport = "telnet" /\ tn_pc = "negotiate"
    /\ inbox = NoBytes /\ peer = "closed"
    /\ tn_pc' = "closed"
    /\ UNCHANGED <<peer, inbox, client_width, client_height, reported, loopVars>>
    /\ TelnetOnly
TelnetReadEof ==
    /\ transport = "telnet" /\ tn_pc = "negotiate"
    /\ inbox = NoBytes /\ peer = "closed"
    /\ tn_pc' = "stream"
    /\ UNCHANGED <<peer, inbox, client_width, client_height, reported, loopVars>>
    /\ TelnetOnly

\* telnet.rs:52-55  Err(e) => break
TelnetReadErr ==
    /\ transport = "telnet" /\ tn_pc = "negotiate"
    /\ inbox = NoBytes /\ peer = "reset"
    /\ tn_pc' = "stream"
    /\ UNCHANGED <<peer, inbox, client_width, client_height, reported, loopVars>>
    /\ TelnetOnly

\* telnet.rs:99  frame_idx = (frame_idx + 1) % FRAMES.len()
TelnetNextFrameMut(idx) == (idx + 2) % NumFrames
TelnetNextFrame(idx) == (idx + 1) % NumFrames

\* telnet.rs:73  RenderSize::new(client_width, client_height)
TelnetRenderSize ==
    RenderSizeNew(FRAME_WIDTH, FRAME_HEIGHT, client_width, client_height,
                  overflow_checks)

\* telnet.rs:61-100  one iteration of the animation loop, the frame written
TelnetTick ==
    /\ transport = "telnet" /\ tn_pc = "stream"
    /\ Len(emitted) < MaxTicks
    /\ ~TelnetRenderSize.panic
    /\ render_size' = TelnetRenderSize
    /\ frame_data' = FrameData(FRAMES[frame_idx], TelnetRenderSize, args.no_clear)
    /\ emitted' = Append(emitted, frame_idx)
    /\ frame_idx' = TelnetNextFrame(frame_idx)
    /\ UNCHANGED <<peer, inbox, tnVars>>
    /\ TelnetOnly

\* telnet.rs:92-93  write_all or flush fails on a connection the client has
\* left: `?` returns the error
TelnetWriteFail ==
    /\ transport = "telnet" /\ tn_pc = "stream"
    /\ ~TelnetRenderSize.panic
    /\ peer # "open"
    /\ tn_pc' = "closed"
    /\ UNCHANGED <<peer, inbox, client_width, client_height, reported, loopVars>>
    /\ TelnetOnly

\* telnet.rs:73  RenderSize::new panics on `height - 1` with height 0
TelnetTickPanic ==
    /\ transport = "telnet" /\ tn_pc = "stream"
    /\ TelnetRenderSize.panic
    /\ tn_pc' = "panicked"
    /\ UNCHANGED <<peer, inbox, client_width, client_height, reported, loopVars>>
    /\ TelnetOnly

TelnetNext ==
    \/ ClientSend
    \/ ClientResize
    \/ ClientClose
    \/ ClientReset
    \/ TelnetHandshake
    \/ TelnetReadData
    \/ TelnetReadEof
    \/ TelnetReadErr
    \/ TelnetTick
    \/ TelnetWriteFail
    \/ TelnetTickPanic

(***************************************************************************)
(* The websocket messages (http.rs:121-141)                                *)
(***************************************************************************)
\* enum StatusCode
StatusInit == 0
StatusOk == 1
StatusError == 2

\* mpsc::channel::<MessageFrame>(128)
ChannelCap == 128

\* the client sends at most MaxClientMsgs messages in a session
MaxClientMsgs == 2

Fields == {"code", "width", "height", "frame"}

\* struct MessageFrame
MessageFrame(code, width, height, frame) ==
    [code |-> code, width |-> width, height |-> height, frame |-> frame]

\* serde_json::to_string(&msg): a field that is None is left out
to_string_null(msg) ==
    [k \in Fields |->
        IF k = "code" THEN msg.code
        ELSE IF msg[k] = None THEN "null" ELSE msg[k][1]]
to_string(msg) ==
    [k \in {"code"} \cup {f \in Fields \ {"code"} : msg[f] # None} |->
        IF k = "code" THEN msg.code ELSE msg[k][1]]

\* serde_json::from_str::<MessageFrame>(&t) succeeds: code is there and is
\* 0, 1 or 2, width and height are u16 where given
ParsesAllFields(t) ==
    /\ {"code", "width", "height"} \subseteq DOMAIN t
    /\ t.code \in {StatusInit, StatusOk, StatusError}
    /\ t.width \in 0..MaxU16 /\ t.height \in 0..MaxU16
Parses(t) ==
    /\ "code" \in DOMAIN t
    /\ t.code \in {StatusInit, StatusOk, StatusError}
    /\ \A f \in {"width", "height"} :
          f \in DOMAIN t => t[f] \in 0..MaxU16

\* serde_json::from_str::<MessageFrame>(&t), Parses(t) given
FromStr(t) ==
    [f \in Fields |->
        IF f = "code" THEN t.code
        ELSE IF f \in DOMAIN t THEN Some(t[f]) ELSE None]

\* the texts a client sends: Ok with a size, Ok lacking one, Init, Error,
\* an unknown code, a width that is no u16, and text that is no object
WsSizes == {<<5, 3>>, <<100, 30>>, <<4, 0>>}
WsTexts ==
    {[code |-> StatusOk, width |-> z[1], height |-> z[2]] : z \in WsSizes}
    \cup { [code |-> StatusOk], [code |-> StatusOk, width |-> 5],
           [code |-> StatusInit], [code |-> StatusError],
           [code |-> 3], [code |-> StatusOk, width |-> 70000, height |-> 3],
           [garbage |-> TRUE] }

NoText == [none |-> TRUE]
NoMessage == [kind |-> "none", text |-> NoText]

\* axum's Message as the client sends it
WsClientMsgs ==
    {[kind |-> "text", text |-> t] : t \in WsTexts}
    \cup {[kind |-> k, text |-> NoText] : k \in {"binary", "ping", "pong", "close"}}

(***************************************************************************)
(* handle_socket (http.rs:143-258) and process_message (http.rs:261-298)   *)
(***************************************************************************)
\* a task that has ended: returned Ok, returned Err, panicked, was aborted
Finished == {"ok", "err", "panicked", "aborted"}

WsInit ==
    /\ transport = "ws"
    /\ args \in ArgsOf("ws")
    /\ overflow_checks \in BOOLEAN
    /\ peer = "open"
    /\ inbox = NoMessage
    /\ LoopInit
    /\ send_task = "init"
    /\ recv_task = "recv"
    /\ handler = "select"
    /\ channel = <<>>
    /\ tx_pending = None
    /\ ws_size = NoSize
    /\ ws_sent = <<>>
    /\ n_msgs = 0
    /\ TelnetIdle /\ SaIdle

\* a step of the websocket session leaves the rest alone
WsOnly == UNCHANGED <<parseVars, viewVars, envVars, tnVars, saVars>>

\* the client sends a message
WsClientSend ==
    /\ transport = "ws" /\ peer = "open" /\ handler = "select"
    /\ inbox = NoMessage
    /\ n_msgs < MaxClientMsgs
    /\ \E m \in WsClientMsgs : inbox' = m
    /\ n_msgs' = n_msgs + 1
    /\ UNCHANGED <<peer, loopVars, send_task, recv_task, handler, channel, tx_pending,
                   ws_size, ws_sent>>
    /\ WsOnly

\* the client's connection goes away
WsClientDrop ==
    /\ transport = "ws" /\ peer = "open"
    /\ peer' = "closed"
    /\ UNCHANGED <<inbox, loopVars, wsVars>>
    /\ WsOnly

\* http.rs:153-164  the Init message is sent; a failed send returns Err
SendInit ==
    /\ transport = "ws" /\ send_task = "init"
    /\ \/ /\ send_task' = "recv"
          /\ ws_sent' = Append(ws_sent,
                 to_string(MessageFrame(StatusInit, None, None, None)))
       \/ /\ peer # "open"
          /\ send_task' = "err"
          /\ UNCHANGED ws_sent
    /\ UNCHANGED <<peer, inbox, loopVars, recv_task, handler, channel, tx_pending,
                   ws_size, n_msgs>>
    /\ WsOnly

\* http.rs:167-211  rx_from_ws.recv() yields a message: Ok with width and
\* height starts the animation loop, Ok without either and Error return
\* Err, Init is skipped
SendRecv ==
    /\ transport = "ws" /\ send_task = "recv"
    /\ channel # <<>>
    /\ LET msg == Head(channel)
       IN  /\ send_task' =
                IF msg.code = StatusOk
                  THEN IF msg.width = None \/ msg.height = None
                         THEN "err" ELSE "stream"
                  ELSE IF msg.code = StatusError THEN "err" ELSE "recv"
           /\ ws_size' =
                IF msg.code = StatusOk /\ msg.width # None /\ msg.height # None
                  THEN <<msg.width[1], msg.height[1]>> ELSE ws_size
    /\ channel' = Tail(channel)
    /\ frame_idx' = 0
    /\ UNCHANGED <<peer, inbox, render_size, frame_data, emitted, recv_task,
                   handler, tx_pending, ws_sent, n_msgs>>
    /\ WsOnly

\* http.rs:167, 214  rx_from_ws.recv() yields None once recv_task has
\* dropped the sender and the channel is empty: send_task returns Ok
SendChannelClosed ==
    /\ transport = "ws" /\ send_task = "recv"
    /\ channel = <<>> /\ recv_task \in Finished
    /\ send_task' = "ok"
    /\ UNCHANGED <<peer, inbox, loopVars, recv_task, handler, channel, tx_pending,
                   ws_size, ws_sent, n_msgs>>
    /\ WsOnly

\* http.rs:204  frame_idx = (frame_idx + 1) % FRAMES.len()
WsNextFrame(idx) == (idx + 1) % NumFrames

\* the RenderSize build_frame computes for the client's width and height
WsRenderSize ==
    RenderSizeNew(FRAME_WIDTH, FRAME_HEIGHT, ws_size[1], ws_size[2],
                  overflow_checks)

\* http.rs:182  build_frame(width, height, &args, frame_idx, start_time)
BuildFrame(rs, a, idx) == FrameData(FRAMES[idx], rs, a.no_clear)

\* http.rs:181-205  one iteration of the animation loop, the frame sent
WsTick ==
    /\ transport = "ws" /\ send_task = "stream"
    /\ Len(emitted) < MaxTicks
    /\ ~WsRenderSize.panic
    /\ render_size' = WsRenderSize
    /\ frame_data' = BuildFrame(WsRenderSize, args, frame_idx)
    /\ ws_sent' = Append(ws_sent,
           to_string(MessageFrame(StatusOk, None, None, Some(frame_data'))))
    /\ emitted' = Append(emitted, frame_idx)
    /\ frame_idx' = WsNextFrame(frame_idx)
    /\ UNCHANGED <<peer, inbox, send_task, recv_task, handler, channel, tx_pending,
                   ws_size, n_msgs>>
    /\ WsOnly

\* http.rs:195-198  the send fails on a connection that went away
WsSendFail ==
    /\ transport = "ws" /\ send_task = "stream"
    /\ ~WsRenderSize.panic
    /\ peer # "open"
    /\ send_task' = "err"
    /\ UNCHANGED <<peer, inbox, loopVars, recv_task, handler, channel, tx_pending,
                   ws_size, ws_sent, n_msgs>>
    /\ WsOnly

\* http.rs:182  build_frame panics on `height - 1` with height 0
WsTickPanic ==
    /\ transport = "ws" /\ send_task = "stream"
    /\ WsRenderSize.panic
    /\ send_task' = "panicked"
    /\ UNCHANGED <<peer, inbox, loopVars, recv_task, handler, channel, tx_pending,
                   ws_size, ws_sent, n_msgs>>
    /\ WsOnly

\* http.rs:219-223, 261-298  receiver.next() yields a message and
\* process_message handles it: a text that parses is sent into the channel,
\* a text that does not parse and a close return Err.  tx_from_ws.send
\* waits with the message while the channel is full, and fails once
\* send_task has dropped the receiver.
RecvMessage ==
    /\ transport = "ws"
    /\ \/ /\ recv_task = "recv"
          /\ inbox # NoMessage
          /\ \/ /\ inbox.kind = "text" /\ Parses(inbox.text)
                /\ send_task \notin Finished
                /\ Len(channel) < ChannelCap
                /\ channel' = Append(channel, FromStr(inbox.text))
                /\ UNCHANGED <<recv_task, tx_pending>>
             \/ /\ inbox.kind = "text" /\ Parses(inbox.text)
                /\ send_task \notin Finished
                /\ Len(channel) >= ChannelCap
                /\ recv_task' = "sending"
                /\ tx_pending' = Some(FromStr(inbox.text))
                /\ UNCHANGED channel
             \/ /\ inbox.kind = "text" /\ Parses(inbox.text)
                /\ send_task \in Finished
                /\ recv_task' = "err"
                /\ UNCHANGED <<channel, tx_pending>>
             \/ /\ inbox.kind = "text" /\ ~Parses(inbox.text)
                /\ recv_task' = "err"
                /\ UNCHANGED <<channel, tx_pending>>
             \/ /\ inbox.kind \in {"binary", "ping", "pong"}
                /\ UNCHANGED <<recv_task, channel, tx_pending>>
             \/ /\ inbox.kind = "close"
                /\ recv_task' = "err"
                /\ UNCHANGED <<channel, tx_pending>>
          /\ inbox' = NoMessage
       \/ /\ recv_task = "sending"
          /\ \/ /\ send_task \notin Finished
                /\ Len(channel) < ChannelCap
                /\ channel' = Append(channel, tx_pending[1])
                /\ recv_task' = "recv"
             \/ /\ send_task \in Finished
                /\ recv_task' = "err"
                /\ UNCHANGED channel
          /\ tx_pending' = None
          /\ UNCHANGED inbox
    /\ UNCHANGED <<peer, loopVars, send_task, handler, ws_size, ws_sent, n_msgs>>
    /\ WsOnly

\* http.rs:219, 225  receiver.next() yields None or an error: Ok(())
RecvEnd ==
    /\ transport = "ws" /\ recv_task = "recv"
    /\ inbox = NoMessage /\ peer = "closed"
    /\ recv_task' = "ok"
    /\ UNCHANGED <<peer, inbox, loopVars, send_task, handler, channel, tx_pending,
                   ws_size, ws_sent, n_msgs>>
    /\ WsOnly

\* http.rs:229-241  select!: send_task has ended, recv_task is aborted
SelectSend ==
    /\ transport = "ws" /\ handler = "select"
    /\ send_task \in Finished
    /\ recv_task' = IF recv_task \in Finished THEN recv_task ELSE "aborted"
    /\ handler' = "returned"
    /\ UNCHANGED <<peer, inbox, loopVars, send_task, channel, tx_pending, ws_size,
                   ws_sent, n_msgs>>
    /\ WsOnly

\* http.rs:242-253  select!: recv_task has ended, send_task is aborted
SelectRecvNoAbort ==
    /\ transport = "ws" /\ handler = "select"
    /\ recv_task \in Finished
    /\ handler' = "returned"
    /\ UNCHANGED <<peer, inbox, loopVars, send_task, recv_task, channel,
                   tx_pending, ws_size, ws_sent, n_msgs>>
    /\ WsOnly
SelectRecv ==
    /\ transport = "ws" /\ handler = "select"
    /\ recv_task \in Finished
    /\ send_task' = IF send_task \in Finished THEN send_task ELSE "aborted"
    /\ handler' = "returned"
    /\ UNCHANGED <<peer, inbox, loopVars, recv_task, channel, tx_pending, ws_size,
                   ws_sent, n_msgs>>
    /\ WsOnly

WsNext ==
    \/ WsClientSend
    \/ WsClientDrop
    \/ SendInit
    \/ SendRecv
    \/ SendChannelClosed
    \/ WsTick
    \/ WsSendFail
    \/ WsTickPanic
    \/ RecvMessage
    \/ RecvEnd
    \/ SelectSend
    \/ SelectRecv

(***************************************************************************)
(* run_standalone (standalone.rs:21-119) and render_frame                  *)
(* (standalone.rs:122-164)                                                 *)
(***************************************************************************)
\* the sizes the terminal takes: no rows, smaller than the frame, the
\* frame's, larger than the frame
TermSizes == {<<2, 0>>, <<3, 2>>, <<2 * FRAME_WIDTH, FRAME_HEIGHT + 1>>,
              <<4 * FRAME_WIDTH, 2 * FRAME_HEIGHT>>}

\* the key events: q and Esc pressed, another key pressed, q released
Keys == {"q", "esc", "x", "q-release"}
NoKey == "none"

\* standalone.rs:82-83  nyaned.len(), the counter's text being shorter than
\* a frame is wide
text_len == 3

\* standalone.rs:75-79
counter_width(terminal_width) ==
    IF terminal_width < FRAME_WIDTH THEN terminal_width ELSE FRAME_WIDTH

\* standalone.rs:89  `counter_width - text_len` underflows: a panic, or a
\* wrapped count that makes `repeat` panic
CounterPanics(terminal_width) == counter_width(terminal_width) < text_len

\* standalone.rs:143-160  the rows from y on: where each line is put, and
\* the line
RECURSIVE RenderRows(_, _, _)
RenderRows(frame, rs, y) ==
    IF y >= Len(frame) THEN <<>>
    ELSE (IF RowClipped(y, rs) THEN <<>>
          ELSE <<[at |-> y - rs.min_row, line |-> RowText(frame[y + 1], rs)]>>)
         \o RenderRows(frame, rs, y + 1)

\* standalone.rs:122-164  render_frame
render_frame(frame, rs) == RenderRows(frame, rs, 0)

SaInit ==
    /\ transport = "terminal"
    /\ args \in ArgsOf("terminal")
    /\ overflow_checks \in BOOLEAN
    /\ peer = Idle
    /\ inbox = Idle
    /\ LoopInit
    /\ sa_pc = "start"
    /\ event_loop = "none"
    /\ key = NoKey
    /\ raw_mode = FALSE
    /\ cursor_hidden = FALSE
    /\ term_size \in TermSizes
    /\ TelnetIdle /\ WsIdle

\* a step of the terminal session leaves the rest alone
SaOnly == UNCHANGED <<parseVars, viewVars, envVars, peer, inbox, tnVars, wsVars>>

\* run_standalone has not returned
SaRunning == sa_pc \in {"start", "loop", "tick", "restore"}

\* the user resizes the terminal
Resize ==
    /\ transport = "terminal" /\ SaRunning
    /\ \E z \in TermSizes \ {term_size} : term_size' = z
    /\ UNCHANGED <<loopVars, sa_pc, event_loop, key, raw_mode, cursor_hidden>>
    /\ SaOnly

\* the user presses or releases a key
KeyEvent ==
    /\ transport = "terminal" /\ SaRunning
    /\ key = NoKey
    /\ \E k \in Keys : key' = k
    /\ UNCHANGED <<loopVars, sa_pc, event_loop, raw_mode, cursor_hidden,
                   term_size>>
    /\ SaOnly

\* standalone.rs:25-50  raw mode, the cursor hidden, the key listener
\* spawned, the screen cleared; an error of one of them returns at once
SaSetup ==
    /\ transport = "terminal" /\ sa_pc = "start"
    /\ \/ /\ sa_pc' = "loop"
          /\ raw_mode' = TRUE /\ cursor_hidden' = TRUE
          /\ event_loop' = "polling"
       \/ /\ sa_pc' = "err"                    \* enable_raw_mode()?
          /\ UNCHANGED <<raw_mode, cursor_hidden, event_loop>>
       \/ /\ sa_pc' = "err"                    \* execute!(.. cursor::Hide)?
          /\ raw_mode' = TRUE
          /\ UNCHANGED <<cursor_hidden, event_loop>>
       \/ /\ ~args.no_clear                    \* execute!(.. Clear(All))?
          /\ sa_pc' = "err"
          /\ raw_mode' = TRUE /\ cursor_hidden' = TRUE
          /\ event_loop' = "polling"
    /\ UNCHANGED <<loopVars, key, term_size>>
    /\ SaOnly

\* standalone.rs:30-38  the listener reads an event: a press of Esc or q
\* ends the task, any other event is passed over
EventLoopRead ==
    /\ transport = "terminal" /\ event_loop = "polling"
    /\ key # NoKey
    /\ event_loop' = IF key \in {"q", "esc"} THEN "finished" ELSE "polling"
    /\ key' = NoKey
    /\ UNCHANGED <<loopVars, sa_pc, raw_mode, cursor_hidden, term_size>>
    /\ SaOnly

\* standalone.rs:31-32  event::poll or event::read fails: the task ends
EventLoopErr ==
    /\ transport = "terminal" /\ event_loop = "polling"
    /\ SaRunning
    /\ event_loop' = "failed"
    /\ UNCHANGED <<loopVars, sa_pc, key, raw_mode, cursor_hidden, term_size>>
    /\ SaOnly

\* standalone.rs:54  event_loop.is_finished(): the listener's task has
\* returned, with Ok or with an error
IsFinishedMut == FALSE
IsFinished == event_loop \in {"finished", "failed"}

\* standalone.rs:54-56  event_loop.is_finished(): break
SaBreak ==
    /\ transport = "terminal" /\ sa_pc = "loop"
    /\ IsFinished
    /\ sa_pc' = "restore"
    /\ UNCHANGED <<loopVars, event_loop, key, raw_mode, cursor_hidden,
                   term_size>>
    /\ SaOnly

\* standalone.rs:62-67  RenderSize::new(terminal_width, terminal_height)
SaRenderSize ==
    RenderSizeNew(FRAME_WIDTH, FRAME_HEIGHT, term_size[1], term_size[2],
                  overflow_checks)

\* standalone.rs:104-105  `let Some(limit) = args.frames && frame_idx >= limit`
LimitReachedMut(idx) == args.frames # None /\ idx > args.frames[1]
LimitReached(idx) == args.frames # None /\ idx >= args.frames[1]

\* standalone.rs:111  frame_idx = (frame_idx + 1) % FRAMES.len()
SaNextFrame(idx) == (idx + 1) % NumFrames

\* the iteration panics after the frame is rendered: the counter
SaCounterPanics == ~args.no_counter /\ CounterPanics(term_size[1])

\* standalone.rs:52-56  the listener has not finished: an iteration of the
\* animation loop begins
SaCheck ==
    /\ transport = "terminal" /\ sa_pc = "loop"
    /\ ~IsFinished
    /\ Len(emitted) < MaxTicks
    /\ sa_pc' = "tick"
    /\ UNCHANGED <<loopVars, event_loop, key, raw_mode, cursor_hidden,
                   term_size>>
    /\ SaOnly

\* standalone.rs:58-112  the iteration begun: the frame is rendered, and the
\* loop goes on to the next frame or breaks at the limit
SaTick ==
    /\ transport = "terminal" /\ sa_pc = "tick"
    /\ ~SaRenderSize.panic /\ ~SaCounterPanics
    /\ render_size' = SaRenderSize
    /\ frame_data' = render_frame(FRAMES[frame_idx], SaRenderSize)
    /\ emitted' = Append(emitted, frame_idx)
    /\ IF LimitReached(frame_idx)
         THEN sa_pc' = "restore" /\ UNCHANGED frame_idx
         ELSE sa_pc' = "loop" /\ frame_idx' = SaNextFrame(frame_idx)
    /\ UNCHANGED <<event_loop, key, raw_mode, cursor_hidden, term_size>>
    /\ SaOnly

\* standalone.rs:59, 70, 86, 90, 97  an I/O error returns at once
SaIoError ==
    /\ transport = "terminal" /\ sa_pc = "tick"
    /\ sa_pc' = "err"
    /\ UNCHANGED <<loopVars, event_loop, key, raw_mode, cursor_hidden,
                   term_size>>
    /\ SaOnly

\* standalone.rs:67, 89  RenderSize::new panics on a terminal of no rows,
\* the counter on a terminal narrower than its text
SaTickPanic ==
    /\ transport = "terminal" /\ sa_pc = "tick"
    /\ SaRenderSize.panic \/ SaCounterPanics
    /\ sa_pc' = "panicked"
    /\ IF SaRenderSize.panic
         THEN UNCHANGED loopVars
         ELSE /\ render_size' = SaRenderSize
              /\ frame_data' = render_frame(FRAMES[frame_idx], SaRenderSize)
              /\ emitted' = Append(emitted, frame_idx)
              /\ UNCHANGED frame_idx
    /\ UNCHANGED <<event_loop, key, raw_mode, cursor_hidden, term_size>>
    /\ SaOnly

\* standalone.rs:115-118  the terminal is restored; an error of
\* disable_raw_mode or of execute! returns before the rest
SaRestore ==
    /\ transport = "terminal" /\ sa_pc = "restore"
    /\ \/ /\ sa_pc' = "done"
          /\ raw_mode' = FALSE /\ cursor_hidden' = FALSE
       \/ /\ sa_pc' = "err"
          /\ UNCHANGED <<raw_mode, cursor_hidden>>
       \/ /\ sa_pc' = "err"
          /\ raw_mode' = FALSE
          /\ UNCHANGED cursor_hidden
    /\ UNCHANGED <<loopVars, event_loop, key, term_size>>
    /\ SaOnly

SaNext ==
    \/ Resize
    \/ KeyEvent
    \/ SaSetup
    \/ EventLoopRead
    \/ EventLoopErr
    \/ SaBreak
    \/ SaCheck
    \/ SaTick
    \/ SaIoError
    \/ SaTickPanic
    \/ SaRestore

(***************************************************************************)
(* Spec: one session of the transport main dispatches to                   *)
(***************************************************************************)
Init ==
    /\ data = Idle /\ ps = Idle /\ vin = Idle /\ vp = Idle
    /\ \/ TelnetInit
       \/ WsInit
       \/ SaInit

Next ==
    \/ TelnetNext
    \/ WsNext
    \/ SaNext

Spec == Init /\ [][Next]_vars

(***************************************************************************)
(* Properties of the telnet session                                        *)
(***************************************************************************)
Negotiating == transport = "telnet" /\ tn_pc \in {"handshake", "negotiate"}

\* the telnet session is in its animation loop
TelnetStreaming == transport = "telnet" /\ tn_pc = "stream"

TelnetServer ==
    \/ TelnetHandshake
    \/ TelnetReadData
    \/ TelnetReadEof
    \/ TelnetReadErr
    \/ TelnetTick
    \/ TelnetWriteFail
    \/ TelnetTickPanic

TelnetSession ==
    /\ data = Idle /\ ps = Idle /\ vin = Idle /\ vp = Idle
    /\ TelnetInit

\* a telnet session whose task runs whenever it has a step to take: a read
\* returns once bytes have come or the connection has ended, a write
\* returns, the sleep ends
FairSpec ==
    /\ TelnetSession
    /\ [][TelnetNext]_vars
    /\ WF_vars(TelnetServer)

\* the client stays connected and sends no NAWS
NoNawsClient == peer = "open" /\ inbox.size = NoSize

\* C6 as claimed: a telnet session whose client stays connected and never
\* sends a whole NAWS (it is idle, or keeps sending other bytes) leaves the
\* negotiation and eventually streams frames.
C6_AsClaimed == []NoNawsClient => <>TelnetStreaming

\* the window size the telnet client reported fits the frame
FitsFrame ==
    /\ reported # NoSize
    /\ reported[1] \div 2 <= FRAME_WIDTH
    /\ reported[2] - 1 <= FRAME_HEIGHT

\* text is rows lines of cols cells each, behind the clear sequence if any
IsGrid(text, cols, rows, no_clear) ==
    LET body == IF no_clear THEN text ELSE Tail(text)
    IN  /\ no_clear \/ (text # <<>> /\ Head(text) = ClearScreen)
        /\ Len(body) = rows * (cols + 1)
        /\ \A k \in 1..Len(body) :
              (body[k] = NewLine) <=> (k % (cols + 1) = 0)

\* the first frame of the session is the one written
FirstFrame == TelnetStreaming /\ Len(emitted) = 1

\* an 80 x 24 client on a frame of 64 x 64: 40 columns and 23 rows
Frame80x24 ==
    LET rs == RenderSizeNew(64, 64, 80, 24, TRUE)
    IN  /\ rs.max_col - rs.min_col = 40
        /\ rs.max_row - rs.min_row = 23
        /\ IsGrid(FrameData(MakeFrame(0, 64, 64), rs, FALSE), 40, 23, FALSE)

\* C9 as claimed: for a NAWS of (w, h) with floor(w/2) <= frameWidth and
\* h - 1 <= frameHeight the first frame's viewport has
\* max_col - min_col = floor(w/2) and max_row - min_row = h - 1, and the
\* frame text is h - 1 rows of floor(w/2) cells.
C9_AsClaimed ==
    (FirstFrame /\ FitsFrame) =>
        /\ render_size.max_col - render_size.min_col = reported[1] \div 2
        /\ render_size.max_row - render_size.min_row = reported[2] - 1
        /\ IsGrid(frame_data, reported[1] \div 2, reported[2] - 1,
                  args.no_clear)

\* C9 (amended): the same for a NAWS of (w, h) with h >= 1; for 80 x 24 on
\* a frame of at least 40 x 23 this is 40 columns and 23 rows.
C9_FirstFrame ==
    /\ (FirstFrame /\ FitsFrame /\ reported[2] >= 1) =>
          /\ render_size.max_col - render_size.min_col = reported[1] \div 2
          /\ render_size.max_row - render_size.min_row = reported[2] - 1
          /\ IsGrid(frame_data, reported[1] \div 2, reported[2] - 1,
                    args.no_clear)
    /\ Frame80x24

\* a client of 5 x 3 got the first frame: 2 columns and 2 rows
C9_Witness ==
    /\ FirstFrame /\ reported = <<5, 3>>
    /\ render_size.max_col - render_size.min_col = 2
    /\ render_size.max_row - render_size.min_row = 2
    /\ Len(frame_data) = 6 + (IF args.no_clear THEN 0 ELSE 1)

(***************************************************************************)
(* Properties of the animation loops                                       *)
(***************************************************************************)
\* the session's animation loop runs
Streaming ==
    \/ TelnetStreaming
    \/ transport = "ws" /\ send_task = "stream"
    \/ transport = "terminal" /\ sa_pc \in {"loop", "tick"}

\* C10: in a telnet, a websocket and a terminal session the k-th tick
\* (k = 0, 1, 2, ...) emits frame k mod N of the N frames, one frame a tick,
\* none skipped, repeated or out of order; frame_idx stays in 0..N-1, and
\* while the loop runs it is (ticks mod N), so after N ticks it is 0 again.
C10_FrameCycle ==
    /\ [](/\ \A k \in 1..Len(emitted) : emitted[k] = (k - 1) % NumFrames
          /\ frame_idx \in 0..(NumFrames - 1)
          /\ Streaming => frame_idx = Len(emitted) % NumFrames)
    /\ [][Len(emitted') \in {Len(emitted), Len(emitted) + 1}]_vars

\* a websocket session has ticked once more than there are frames
C10_Witness ==
    /\ transport = "ws" /\ send_task = "stream"
    /\ Len(emitted) = NumFrames + 1
    /\ emitted[NumFrames + 1] = 0
    /\ frame_idx = 1

\* a telnet session has ticked as often as there are frames
C10_WitnessTelnet ==
    /\ TelnetStreaming /\ Len(emitted) = NumFrames /\ frame_idx = 0

\* a terminal session has ticked as often as there are frames
C10_WitnessTerminal ==
    /\ transport = "terminal" /\ sa_pc = "loop"
    /\ Len(emitted) = NumFrames /\ frame_idx = 0

(***************************************************************************)
(* Properties of the terminal session's frame limit                        *)
(***************************************************************************)
\* --frames N with N >= 1 was given to a terminal session
Limited == transport = "terminal" /\ args.frames # None /\ args.frames[1] >= 1

\* C11 as claimed: with a frame limit N >= 1 the terminal loop renders
\* exactly N ticks and then ends: it never renders more than N, and when it
\* has left the loop at the limit it has rendered N.
C11_AsClaimed ==
    Limited =>
        /\ Len(emitted) <= args.frames[1]
        /\ (sa_pc \in {"restore", "done"} /\ event_loop = "polling") =>
              Len(emitted) = args.frames[1]

(***************************************************************************)
(* Properties of the websocket session                                     *)
(***************************************************************************)
\* C12: the first message a websocket session's server sends is Init
\* (code 0) without width, height and frame, and it is the only Init; every
\* later message is Ok (code 1) with a frame and without width and height;
\* no frame is sent before the server has got a client Ok with both width
\* and height.
C12_InitThenFrames ==
    transport = "ws" =>
        /\ ws_sent # <<>> => ws_sent[1] = [code |-> StatusInit]
        /\ \A k \in 2..Len(ws_sent) :
              /\ DOMAIN ws_sent[k] = {"code", "frame"}
              /\ ws_sent[k].code = StatusOk
        /\ Len(ws_sent) >= 2 => ws_size \in WsSizes

\* the server has sent Init and two frames to the client of 5 x 3
C12_Witness ==
    /\ transport = "ws" /\ Len(ws_sent) = 3
    /\ ws_sent[1].code = StatusInit /\ ws_sent[3].code = StatusOk
    /\ ws_sent[3].frame = frame_data
    /\ ws_size = <<5, 3>>

\* the session is in its Init state: Init is sent, no Ok with a size has come
InInit == transport = "ws" /\ send_task = "recv"

\* this step is send_task taking a message from the channel
Consumed == channel # <<>> /\ channel' = Tail(channel)

\* this step is recv_task handling the message that has come
Processed == recv_task = "recv" /\ inbox # NoMessage /\ inbox' = NoMessage

\* an Ok that lacks width or height
OkLacking(msg) ==
    msg.code = StatusOk /\ (msg.width = None \/ msg.height = None)

\* the texts of an Init-coded message and of an Ok that lacks a size
InitText == [code |-> StatusInit]
OkLackingTexts == {[code |-> StatusOk], [code |-> StatusOk, width |-> 5]}

\* what the claim and its amendment agree on: recv_task passes binary, ping
\* and pong over and forwards Init-coded and size-less Ok texts, and
\* send_task skips an Init-coded message
IgnoredSteps ==
    /\ (Processed /\ inbox.kind \in {"binary", "ping", "pong"}) =>
          /\ recv_task' = "recv" /\ send_task' = "recv"
          /\ channel' = channel /\ ws_sent' = ws_sent
    /\ (Processed /\ inbox.kind = "text"
          /\ inbox.text \in {InitText} \cup OkLackingTexts) =>
          /\ recv_task' = "recv" /\ send_task' = "recv"
          /\ channel' = Append(channel, FromStr(inbox.text))
          /\ ws_sent' = ws_sent
    /\ (Consumed /\ Head(channel).code = StatusInit) =>
          send_task' = "recv" /\ ws_sent' = ws_sent

\* C13 as claimed: in the Init state an Init-coded message, an Ok lacking
\* width or height, and binary, ping and pong messages are ignored: the
\* session stays in Init, is not ended, and no frame is sent.
C13_AsClaimed ==
    [][InInit =>
          /\ IgnoredSteps
          /\ (Consumed /\ OkLacking(Head(channel))) =>
                send_task' = "recv" /\ ws_sent' = ws_sent]_vars

\* C13 (amended): in the Init state an Init-coded message and binary, ping
\* and pong messages are ignored: the session stays in Init, is not ended,
\* and no frame is sent; an Ok lacking width or height ends the session:
\* send_task returns an error, and no frame is sent.
C13_IgnoredInInit ==
    [][InInit =>
          /\ IgnoredSteps
          /\ (Consumed /\ OkLacking(Head(channel))) =>
                send_task' = "err" /\ ws_sent' = ws_sent]_vars

\* the client's two messages were handled and the session is still in Init
C13_Witness ==
    /\ InInit /\ recv_task = "recv" /\ handler = "select"
    /\ n_msgs = MaxClientMsgs /\ inbox = NoMessage /\ channel = <<>>
    /\ Len(ws_sent) = 1

\* http.rs:181-205  an iteration of the animation loop past the MaxTicks
\* frames emitted and ws_sent keep a record of: the frame is sent all the
\* same
WsTickOn ==
    /\ transport = "ws" /\ send_task = "stream"
    /\ Len(emitted) >= MaxTicks
    /\ ~WsRenderSize.panic
    /\ render_size' = WsRenderSize
    /\ frame_data' = BuildFrame(WsRenderSize, args, frame_idx)
    /\ frame_idx' = WsNextFrame(frame_idx)
    /\ UNCHANGED <<peer, inbox, emitted, wsVars>>
    /\ WsOnly

\* the steps of send_task, of recv_task and of handle_socket's select!
SendTaskStep ==
    \/ SendInit
    \/ SendRecv
    \/ SendChannelClosed
    \/ WsTick
    \/ WsTickOn
    \/ WsSendFail
    \/ WsTickPanic
RecvTaskStep == RecvMessage \/ RecvEnd
SelectStep == SelectSend \/ SelectRecv

WsSession ==
    /\ data = Idle /\ ps = Idle /\ vin = Idle /\ vp = Idle
    /\ WsInit

\* the session, its animation loop running on past the frames recorded
WsNextOn ==
    \/ WsNext
    \/ WsTickOn

\* a websocket session whose tasks each run whenever they have a step to
\* take
FairWsSpec ==
    /\ WsSession
    /\ [][WsNextOn]_vars
    /\ WF_vars(SendTaskStep)
    /\ WF_vars(RecvTaskStep)
    /\ WF_vars(SelectStep)

\* a client message with code Error has come to a session in Init or
\* Streaming
ErrorCame ==
    /\ transport = "ws" /\ handler = "select"
    /\ send_task \in {"recv", "stream"}
    /\ inbox = [kind |-> "text", text |-> [code |-> StatusError]]

\* the session is Closed: handle_socket has returned and both tasks have
\* ended
WsClosed ==
    /\ transport = "ws" /\ handler = "returned"
    /\ send_task \in Finished /\ recv_task \in Finished

\* C14 as claimed: in Init and in Streaming a client message with code Error
\* eventually moves the session to Closed, where both tasks have stopped,
\* and no frame is sent after that.
C14_AsClaimed ==
    /\ [](ErrorCame => <>WsClosed)
    /\ [][WsClosed => ws_sent' = ws_sent]_vars

(***************************************************************************)
(* A websocket client that fills the channel: it sends Ok messages with a  *)
(* size, which send_task no longer takes once it streams, and text that    *)
(* does not parse                                                          *)
(***************************************************************************)
\* the client sends at most MaxFlood messages: one more than the Ok that
\* starts the stream, the ChannelCap that fill the channel, and the one
\* tx_from_ws.send waits with
MaxFlood == 131

FloodTexts == {[code |-> StatusOk, width |-> 5, height |-> 3], [garbage |-> TRUE]}

FloodSend ==
    /\ transport = "ws" /\ peer = "open" /\ handler = "select"
    /\ inbox = NoMessage
    /\ n_msgs < MaxFlood
    /\ \E t \in FloodTexts : inbox' = [kind |-> "text", text |-> t]
    /\ n_msgs' = n_msgs + 1
    /\ UNCHANGED <<peer, loopVars, send_task, recv_task, handler, channel,
                   tx_pending, ws_size, ws_sent>>
    /\ WsOnly

\* the session with this client; its sizes never make build_frame panic
FloodNext ==
    \/ FloodSend
    \/ WsClientDrop
    \/ SendInit
    \/ SendRecv
    \/ SendChannelClosed
    \/ WsTick
    \/ WsTickOn
    \/ WsSendFail
    \/ RecvMessage
    \/ RecvEnd
    \/ SelectSend
    \/ SelectRecv

FairFloodSpec ==
    /\ WsSession
    /\ [][FloodNext]_vars
    /\ WF_vars(SendTaskStep)
    /\ WF_vars(RecvTaskStep)
    /\ WF_vars(SelectStep)

\* a client text that does not parse has come
GarbageCame ==
    /\ transport = "ws" /\ handler = "select"
    /\ inbox.kind = "text" /\ ~Parses(inbox.text)

\* C15 as claimed: in every state of a websocket session and after any
\* earlier client messages, also more than 128 valid ones sent while the
\* session streams, a client text that does not parse is processed and
\* ends the session.
C15_AsClaimed == [](GarbageCame => <>WsClosed)

\* handle_socket has returned
WsReturned == transport = "ws" /\ handler = "returned"

\* one of the two tasks has ended
OneEnded ==
    transport = "ws" /\ (send_task \in Finished \/ recv_task \in Finished)

\* C16: send_task and recv_task run side by side, and in every interleaving
\* the end of one of them (Ok, error, disconnect, protocol violation, panic)
\* leads to handle_socket returning with the other one aborted; once
\* handle_socket has returned both tasks have ended and nothing more is
\* sent, received or queued.
C16_AbortOther ==
    /\ [](WsReturned => (send_task \in Finished /\ recv_task \in Finished))
    /\ [][WsReturned =>
            UNCHANGED <<ws_sent, emitted, inbox, channel, send_task,
                        recv_task>>]_vars
    /\ [](OneEnded => <>WsClosed)

\* recv_task failed on a message while send_task streamed, and send_task
\* was aborted
C16_Witness ==
    /\ WsReturned /\ recv_task = "err" /\ send_task = "aborted"
    /\ Len(emitted) >= 1

\* send_task failed and recv_task was aborted
C16_WitnessSend ==
    /\ WsReturned /\ send_task = "err" /\ recv_task = "aborted"

(***************************************************************************)
(* Properties of the parser's skipping of other sub-negotiations           *)
(***************************************************************************)
\* IAC SB option stands at index p of d, with an option that is not NAWS
OtherSubnegAt(d, p) ==
    /\ p >= 0 /\ p + 2 < Len(d)
    /\ d[p + 1] = IAC /\ d[p + 2] = SB /\ d[p + 3] # NAWS

\* the indices from j on at which IAC SE stands in d
TerminatorsFrom(d, j) ==
    {k \in j..(Len(d) - 2) : d[k + 1] = IAC /\ d[k + 2] = SE}

MinOf(S) == CHOOSE x \in S : \A y \in S : x <= y

\* C19: when the scan reaches IAC SB option with an option other than NAWS,
\* that iteration writes neither width nor height and does not return; the
\* scan goes on right behind the first IAC SE that follows, or, with none,
\* at the buffer's last byte or its end; and a buffer that is such a
\* sub-negotiation without terminator parses to false with width and height
\* untouched, whatever its payload holds.
C19_PayloadSkipped ==
    /\ [][(ps.pc = "scan" /\ OtherSubnegAt(data, ps.i)) =>
            /\ ps'.pc = "scan" /\ ps'.ret = FALSE
            /\ ps'.width = ps.width /\ ps'.height = ps.height
            /\ LET ts == TerminatorsFrom(data, ps.i + 3)
               IN  IF ts # {} THEN ps'.i = MinOf(ts) + 2
                   ELSE ps'.i >= Len(data) - 1]_vars
    /\ []((ps # Idle /\ ps.pc # "scan" /\ OtherSubnegAt(data, 0)
             /\ TerminatorsFrom(data, 3) = {}) =>
            /\ ps.pc = "done" /\ ps.ret = FALSE
            /\ ps.width = DefaultWidth /\ ps.height = DefaultHeight)

\* a TTYPE sub-negotiation with the bytes of a NAWS of 120 x 40 in its
\* payload was parsed: false, and 80 x 24 still
C19_Witness ==
    /\ data = <<IAC, SB, TTYPE>> \o Naws(0, 120, 0, 40) \o Terminator
    /\ ps.pc = "done" /\ ps.ret = FALSE /\ ps.i = Len(data)
    /\ ps.width = DefaultWidth /\ ps.height = DefaultHeight

(***************************************************************************)
(* Properties of the client size the animation loops use                   *)
(***************************************************************************)
\* the RenderSize the session's next tick computes
NextRenderSize ==
    IF transport = "telnet" THEN TelnetRenderSize
    ELSE IF transport = "ws" THEN WsRenderSize
    ELSE SaRenderSize

\* C17 as claimed: in every transport a client height of 0 is raised to 1
\* before the viewport is computed, so `height - 1` never underflows: no
\* tick panics on it and none computes the 65535 rows of the wrapped
\* difference.
C17_AsClaimed ==
    Streaming =>
        /\ ~NextRenderSize.panic
        /\ NextRenderSize.max_row - NextRenderSize.min_row # MaxU16

\* the client's window as it is now: the size of a NAWS sent while the
\* server streams, else the size the session started to stream with
TelnetSizeNow ==
    IF inbox.size # NoSize THEN inbox.size ELSE <<client_width, client_height>>

\* this step is a tick
Ticked == emitted' # emitted

\* C18 as claimed: in telnet and terminal sessions each tick computes the
\* viewport from the client size of that moment: after a NAWS sent
\* mid-stream, and after a resize of the terminal, the next frame is clipped
\* to the new size.
C18_AsClaimed ==
    [][/\ (TelnetStreaming /\ Ticked) =>
            render_size' = RenderSizeNew(FRAME_WIDTH, FRAME_HEIGHT,
                               TelnetSizeNow[1], TelnetSizeNow[2],
                               overflow_checks)
       /\ (transport = "terminal" /\ Ticked) =>
            render_size' = RenderSizeNew(FRAME_WIDTH, FRAME_HEIGHT,
                               term_size[1], term_size[2],
                               overflow_checks)]_vars

\* the session's read has returned EOF or an error: it left the negotiation
\* without a NAWS
DisconnectObserved ==
    /\ transport = "telnet" /\ ~Negotiating
    /\ peer # "open" /\ reported = NoSize

\* C20 as claimed: once a read of the telnet session has returned EOF or an
\* error, no tick runs: no frame is built or written.
C20_AsClaimed == DisconnectObserved => emitted = <<>>

(***************************************************************************)
(* Properties of parse_telnet_commands on well-formed input                *)
(***************************************************************************)
\* the buffers of well-formed items followed by a correctly framed NAWS
\* sub-negotiation, with the window size that NAWS reports
FramedNaws ==
    {[buf |-> p \o Naws(a, b, c, e) \o Terminator,
      width |-> 256 * a + b, height |-> 256 * c + e] :
        p \in ItemSeqs(MaxItems), a \in WidthHi, b \in WidthLo,
        c \in HeightHi, e \in HeightLo}

\* C22 as claimed: for a buffer of well-formed Telnet items (data bytes,
\* two-byte commands, three-byte option commands, terminated
\* sub-negotiations of other options) followed by a correctly framed NAWS
\* sub-negotiation, the parser returns true with that NAWS's width and
\* height.
C22_AsClaimed ==
    \A f \in FramedNaws :
        (data = f.buf /\ ps.pc # "scan") =>
            /\ ps.pc = "done" /\ ps.ret = TRUE
            /\ ps.width = f.width /\ ps.height = f.height

(***************************************************************************)
(* Properties of the terminal session's key listener                       *)
(***************************************************************************)
SaSession ==
    /\ data = Idle /\ ps = Idle /\ vin = Idle /\ vp = Idle
    /\ SaInit

\* the steps of run_standalone's own task
SaLoopStep ==
    \/ SaSetup
    \/ SaBreak
    \/ SaCheck
    \/ SaTick
    \/ SaIoError
    \/ SaTickPanic
    \/ SaRestore

\* a terminal session whose render loop runs whenever it has a step to
\* take: the calls on the terminal return and the sleep ends
FairSaSpec ==
    /\ SaSession
    /\ [][SaNext]_vars
    /\ WF_vars(SaLoopStep)

\* the listener has read a press of Esc or q and returned
ShutdownSignalled == transport = "terminal" /\ event_loop = "finished"

\* the render loop has been left
LoopLeft == transport = "terminal" /\ sa_pc \notin {"start", "loop", "tick"}

\* C21: the key listener runs beside the render loop, and in every
\* interleaving, once the listener has signalled shutdown (Esc or q pressed)
\* the render loop begins no new tick, only a tick already begun renders a
\* frame, and the loop is then left.
C21_NoTickAfterShutdown ==
    /\ [][ShutdownSignalled =>
            /\ ~(sa_pc = "loop" /\ sa_pc' = "tick")
            /\ Ticked => (sa_pc = "tick" /\ sa_pc' # "tick")]_vars
    /\ ShutdownSignalled ~> LoopLeft

\* q was read while a tick was under way, after an earlier tick
C21_Witness ==
    /\ ShutdownSignalled /\ sa_pc = "tick"
    /\ args.frames = None
    /\ Len(emitted) = 1

\* the loop was left on the listener's signal and the terminal restored
C21_WitnessLeft ==
    /\ ShutdownSignalled /\ sa_pc = "done"
    /\ args.frames = None
    /\ Len(emitted) = 2

(***************************************************************************)
(* Properties of the terminal's restoration                                *)
(***************************************************************************)
\* this step returns from run_standalone on one of the paths out of the
\* animation loop: through the restoration behind the loop (exit key, frame
\* limit), or by an I/O error of the iteration under way (the terminal's
\* size, the frame, the counter)
ReturnsFromLoop ==
    /\ transport = "terminal" /\ raw_mode = TRUE
    /\ \/ sa_pc = "restore" /\ sa_pc' = "done"
       \/ sa_pc = "tick" /\ sa_pc' = "err"

\* C23 as claimed: on every exit path of run_standalone after raw mode was
\* enabled (exit key, frame limit reached, an I/O error of reading the
\* terminal's size, rendering a frame or drawing the counter) the terminal
\* is restored before the function returns: raw mode is off and the cursor
\* shown.
C23_AsClaimed ==
    [][ReturnsFromLoop => (raw_mode' = FALSE /\ cursor_hidden' = FALSE)]_vars

====
